---------------------------- MODULE Spec2Model ----------------------------
(***************************************************************************)
(* A model of nmea-mqtt-py: the socket listener and publish gate of        *)
(* main.py, the parse entry point of parse_nmea/__init__.py, the field     *)
(* parsers and the per-type decoders.                                      *)
(*                                                                         *)
(* Text is a sequence of one-character strings.  Python values are tagged  *)
(* records (PyNone, PyFloat, PyInt, PyStr).  A Python float is held in     *)
(* thousandths (10.0 is 10000), cut to a thousandth, so the conversions of *)
(* the decoders are integer arithmetic.  A call that may raise returns     *)
(* either                                                                  *)
(* [ok |-> TRUE, val |-> v] or [ok |-> FALSE, exc |-> <exception class>].  *)
(***************************************************************************)
EXTENDS Integers, Sequences, FiniteSets, TLC

VARIABLES
    now,             \* the system clock, in milliseconds since the epoch
    nticks,          \* how many times the clock has advanced
    last_published,  \* main.py last_published: a defaultdict, type -> time
    line,            \* listen_nmea: the line the loop holds
    outcome,         \* what publish_nmea did with that line (for a published
                     \* one, also the entry of its type that line 53 read)
    sink,            \* the message that line made mqtt_client.publish send
    running,         \* FALSE once an exception has left listen_nmea
    call,            \* a direct call of a parser or decoder: its arguments
    result,          \* what that call returned or raised
    wpc,             \* concurrent workers: where each is in publish_nmea
    wline,           \* concurrent workers: the sentence each holds
    wtime            \* concurrent workers: each one's current_time

vars == <<now, nticks, last_published, line, outcome, sink, running,
          call, result, wpc, wline, wtime>>

(***************************************************************************)
(* Bounds of the model.                                                    *)
(***************************************************************************)
\* How many times the clock advances.
MaxTicks == 3
\* The longest list of satellite fields a GSV input carries.
MaxSatFields == 13

(***************************************************************************)
(* Python values and results.                                              *)
(***************************************************************************)
PyNone == [t |-> "None"]
PyFloat(x) == [t |-> "float", f |-> x]
PyInt(n) == [t |-> "int", i |-> n]
PyStr(s) == [t |-> "str", s |-> s]

Ok(v) == [ok |-> TRUE, val |-> v]
Raise(e) == [ok |-> FALSE, exc |-> e]

\* Thousandths in one unit of a Python float.
Milli == 10 ^ 3

(***************************************************************************)
(* Text.                                                                   *)
(***************************************************************************)
Digits == {"0", "1", "2", "3", "4", "5", "6", "7", "8", "9"}

\* ord(c) for the characters the inputs use.
Ord(c) ==
    CASE c = " " -> 32 [] c = "$" -> 36 [] c = "*" -> 42 [] c = "," -> 44
      [] c = "-" -> 45 [] c = "." -> 46
      [] c = "0" -> 48 [] c = "1" -> 49 [] c = "2" -> 50 [] c = "3" -> 51
      [] c = "4" -> 52 [] c = "5" -> 53 [] c = "6" -> 54 [] c = "7" -> 55
      [] c = "8" -> 56 [] c = "9" -> 57
      [] c = "A" -> 65 [] c = "B" -> 66 [] c = "C" -> 67 [] c = "D" -> 68
      [] c = "E" -> 69 [] c = "F" -> 70 [] c = "G" -> 71 [] c = "H" -> 72
      [] c = "I" -> 73 [] c = "K" -> 75 [] c = "L" -> 76 [] c = "M" -> 77
      [] c = "N" -> 78 [] c = "P" -> 80 [] c = "R" -> 82 [] c = "S" -> 83
      [] c = "T" -> 84 [] c = "V" -> 86 [] c = "W" -> 87 [] c = "X" -> 88
      [] c = "Y" -> 89 [] c = "Z" -> 90
      [] c = "a" -> 97 [] c = "b" -> 98 [] c = "c" -> 99 [] c = "g" -> 103
      [] c = "h" -> 104 [] c = "d" -> 100 [] c = "t" -> 116

\* str.upper() of one character.
UpperChar(c) ==
    CASE c = "a" -> "A" [] c = "b" -> "B" [] c = "c" -> "C" [] c = "d" -> "D"
      [] c = "g" -> "G" [] c = "h" -> "H" [] c = "t" -> "T"
      [] OTHER -> c

\* str.upper()
Upper(s) == [i \in 1..Len(s) |-> UpperChar(s[i])]

\* str.lower() of one character.
LowerChar(c) ==
    CASE c = "A" -> "a" [] c = "B" -> "b" [] c = "C" -> "c" [] c = "D" -> "d"
      [] c = "E" -> "e" [] c = "F" -> "f" [] c = "G" -> "g" [] c = "H" -> "h"
      [] c = "I" -> "i" [] c = "K" -> "k" [] c = "L" -> "l" [] c = "M" -> "m"
      [] c = "N" -> "n" [] c = "P" -> "p" [] c = "R" -> "r" [] c = "S" -> "s"
      [] c = "T" -> "t" [] c = "V" -> "v" [] c = "W" -> "w" [] c = "X" -> "x"
      [] c = "Y" -> "y" [] c = "Z" -> "z"
      [] OTHER -> c

\* str.lower()
Lower(s) == [i \in 1..Len(s) |-> LowerChar(s[i])]

\* s[a:b] with 0 <= a, 0 <= b (Python clamps both to len(s)).
Slice(s, a, b) ==
    LET hi == IF b > Len(s) THEN Len(s) ELSE b
    IN  IF a >= hi THEN <<>> ELSE SubSeq(s, a + 1, hi)

\* s[a:]
SliceFrom(s, a) == Slice(s, a, Len(s))

\* s.startswith(c) for a one-character c.
StartsWith(s, c) == Len(s) >= 1 /\ s[1] = c

\* The 0-based index of the first c at or after the 1-based place i, or -1.
RECURSIVE FindFrom(_, _, _)
FindFrom(s, c, i) ==
    IF i > Len(s) THEN -1
    ELSE IF s[i] = c THEN i - 1
    ELSE FindFrom(s, c, i + 1)

\* s.find(c): the 0-based index of the first c, or -1.
Find(s, c) == FindFrom(s, c, 1)

\* s.lstrip() and s.rstrip() of blanks.
RECURSIVE LStrip(_)
LStrip(s) == IF Len(s) >= 1 /\ s[1] = " " THEN LStrip(Tail(s)) ELSE s

RECURSIVE RStrip(_)
RStrip(s) ==
    IF Len(s) >= 1 /\ s[Len(s)] = " " THEN RStrip(SubSeq(s, 1, Len(s) - 1)) ELSE s

\* s.strip(): leading and trailing blanks removed.
Strip(s) == RStrip(LStrip(s))

\* s.split(','): the fields between commas, empty fields kept.
RECURSIVE Split(_)
Split(s) ==
    LET k == Find(s, ",")
    IN  IF k = -1 THEN <<s>>
        ELSE <<Slice(s, 0, k)>> \o Split(SliceFrom(s, k + 1))

\* ','.join(fields)
RECURSIVE Join(_)
Join(fields) ==
    IF Len(fields) = 0 THEN <<>>
    ELSE IF Len(fields) = 1 THEN fields[1]
    ELSE fields[1] \o <<",">> \o Join(Tail(fields))

(***************************************************************************)
(* Checksum.                                                               *)
(***************************************************************************)
\* operator.xor on non-negative integers.
RECURSIVE Xor(_, _)
Xor(a, b) ==
    IF a = 0 THEN b
    ELSE IF b = 0 THEN a
    ELSE (((a % 2) + (b % 2)) % 2) + 2 * Xor(a \div 2, b \div 2)

\* The exclusive or of ord() of the first n characters, from 0.
RECURSIVE XorUpTo(_, _)
XorUpTo(s, n) == IF n = 0 THEN 0 ELSE Xor(XorUpTo(s, n - 1), Ord(s[n]))

\* checksum(nmea_str): reduce(operator.xor, map(ord, nmea_str), 0)
checksum(s) == XorUpTo(s, Len(s))

HexDigit(n) ==
    CASE n = 0 -> "0" [] n = 1 -> "1" [] n = 2 -> "2" [] n = 3 -> "3"
      [] n = 4 -> "4" [] n = 5 -> "5" [] n = 6 -> "6" [] n = 7 -> "7"
      [] n = 8 -> "8" [] n = 9 -> "9" [] n = 10 -> "A" [] n = 11 -> "B"
      [] n = 12 -> "C" [] n = 13 -> "D" [] n = 14 -> "E" [] n = 15 -> "F"

\* f"{cs:02X}"
Hex02X(n) ==
    IF n < 16 THEN <<"0", HexDigit(n)>>
    ELSE <<HexDigit((n \div 16) % 16), HexDigit(n % 16)>>

\* The value of a decimal digit.
DigitVal(c) == CHOOSE n \in 0..9 : HexDigit(n) = c

\* The value of a hexadecimal digit, in either case.
HexDigitVal(c) ==
    IF c \in Digits THEN DigitVal(c)
    ELSE CHOOSE n \in 10..15 : HexDigit(n) = UpperChar(c)

RECURSIVE HexVal(_)
HexVal(s) ==
    IF Len(s) = 0 THEN 0
    ELSE 16 * HexVal(SubSeq(s, 1, Len(s) - 1)) + HexDigitVal(s[Len(s)])

\* int(text, 16): ValueError unless text is hexadecimal digits.
IntBase16(s) ==
    IF Len(s) >= 1
       /\ \A i \in 1..Len(s) :
              s[i] \in Digits \cup {"A", "B", "C", "D", "E", "F", "a", "b", "c", "d"}
    THEN Ok(HexVal(s))
    ELSE Raise("ValueError")

(***************************************************************************)
(* Numbers in text.                                                        *)
(***************************************************************************)
AllDigits(s) == \A i \in 1..Len(s) : s[i] \in Digits

RECURSIVE DigitsVal(_)
DigitsVal(s) ==
    IF Len(s) = 0 THEN 0
    ELSE 10 * DigitsVal(SubSeq(s, 1, Len(s) - 1)) + DigitVal(s[Len(s)])

\* The text without a leading sign.
Unsigned(s) == IF Len(s) >= 1 /\ s[1] \in {"-", "+"} THEN Tail(s) ELSE s

Negative(s) == Len(s) >= 1 /\ s[1] = "-"

\* Whether int(s) succeeds: an optional sign and at least one digit.
IsIntText(s) == Len(Unsigned(s)) >= 1 /\ AllDigits(Unsigned(s))

\* The magnitude m with the sign of the text s.
WithSign(s, m) == IF Negative(s) THEN 0 - m ELSE m

\* int(s) of such a text.
IntVal(s) == WithSign(s, DigitsVal(Unsigned(s)))

\* The part of a text before and after the place k of its first '.'.
Before(u, k) == IF k = -1 THEN u ELSE Slice(u, 0, k)
After(u, k) == IF k = -1 THEN <<>> ELSE SliceFrom(u, k + 1)

\* The part of an unsigned decimal text before and after its first '.'.
IntPart(u) == Before(u, Find(u, "."))
FracPart(u) == After(u, Find(u, "."))

\* Whether float(s) succeeds, for the texts of the model's inputs (signs, digits,
\* '.', letters; no exponent, "inf", "nan" or blanks): an optional sign, digits
\* with at most one '.', and at least one digit.
IsDecimal(i, f) == AllDigits(i) /\ AllDigits(f) /\ Len(i) + Len(f) >= 1

\* The first three fraction digits, as thousandths.
FracMilli(f) == DigitsVal(Slice(f \o <<"0", "0", "0">>, 0, 3))

\* float(s) of such a text, in thousandths.
FloatVal(s) ==
    WithSign(s, DigitsVal(IntPart(Unsigned(s))) * Milli
                + FracMilli(FracPart(Unsigned(s))))

\* round(x) of a non-negative float in thousandths: to the nearest integer, a
\* half to the even one.
Round(x) ==
    LET q == x \div Milli
        r == x % Milli
    IN  IF 2 * r > Milli THEN q + 1
        ELSE IF 2 * r < Milli THEN q
        ELSE IF q % 2 = 0 THEN q ELSE q + 1

(***************************************************************************)
(* Field parsers (parse_nmea/__init__.py; main.py holds the same code).    *)
(***************************************************************************)
\* is_number(string)
is_number(s) == IsDecimal(IntPart(Unsigned(s)), FracPart(Unsigned(s)))

\* parse_float(float_str): a Python value, never an exception.
parse_float(v) ==
    IF v = PyNone \/ v = PyStr(<<>>) THEN PyNone
    ELSE IF is_number(v.s) THEN PyFloat(FloatVal(v.s))
    ELSE PyNone

\* parse_int(int_str)
parse_int(v) ==
    IF v = PyNone \/ v = PyStr(<<>>) THEN PyNone
    ELSE IF IsIntText(v.s) THEN PyInt(IntVal(v.s))
    ELSE PyNone

\* re.match(r'^(\d+)(\d\d\.\d+)$', dm)
DmMatches(s) ==
    LET k == Find(s, ".")
    IN  /\ k >= 3
        /\ AllDigits(Slice(s, 0, k))
        /\ Len(s) > k + 1
        /\ AllDigits(SliceFrom(s, k + 1))

\* dm_to_sd(dm): degrees and minutes text to decimal degrees (the division by
\* 60 is cut to a thousandth).
dm_to_sd(dm) ==
    IF dm = PyNone THEN Ok(PyNone)
    ELSE IF ~is_number(dm.s) THEN Ok(PyNone)
    ELSE IF dm.s = <<>> \/ dm.s = <<"0">> THEN Ok(PyFloat(0))
    ELSE IF ~DmMatches(dm.s) THEN Raise("ValueError")
    ELSE LET k == Find(dm.s, ".")
             d == Slice(dm.s, 0, k - 2)
             m == SliceFrom(dm.s, k - 2)
         IN  Ok(PyFloat(DigitsVal(d) * Milli + (FloatVal(m) \div 60)))

\* -val: TypeError for None.
Neg(v) ==
    IF v.t = "float" THEN Ok(PyFloat(0 - v.f))
    ELSE IF v.t = "int" THEN Ok(PyInt(0 - v.i))
    ELSE Raise("TypeError")

\* "if <negate>: val = -val; return val", for the outcome val of dm_to_sd.
NegateIf(val, negate) ==
    IF ~val.ok THEN val
    ELSE IF negate THEN Neg(val.val)
    ELSE val

\* parse_latitude(latitude, hemisphere)
parse_latitude(latitude, hemisphere) ==
    NegateIf(dm_to_sd(latitude), hemisphere = PyStr(<<"S">>))

\* parse_longitude(longitude, hemisphere)
parse_longitude(longitude, hemisphere) ==
    NegateIf(dm_to_sd(longitude), hemisphere = PyStr(<<"W">>))

(***************************************************************************)
(* Time and date.                                                          *)
(***************************************************************************)
\* abs(n)
Abs(n) == IF n < 0 THEN 0 - n ELSE n

\* str(n) of a non-negative integer.
RECURSIVE NatText(_)
NatText(n) == IF n < 10 THEN <<HexDigit(n)>> ELSE NatText(n \div 10) \o <<HexDigit(n % 10)>>

\* f"{n:02}": zero-padded to two characters, the sign counted.
Pad02(n, digits) ==
    IF n < 0 THEN <<"-">> \o digits
    ELSE IF n < 10 THEN <<"0">> \o digits
    ELSE digits

Fmt02(n) == Pad02(n, NatText(Abs(n)))

\* round(x) of any float in thousandths.
RoundSigned(x) == IF x < 0 THEN 0 - Round(0 - x) ELSE Round(x)

\* The three conversions parse_time and parse_datetime start with; the first
\* that fails raises (TypeError for None, ValueError for bad text).
TimeFieldsOf(hh, mm, ss) ==
    IF ~IsIntText(hh) THEN Raise("ValueError")
    ELSE IF ~IsIntText(mm) THEN Raise("ValueError")
    ELSE IF ~is_number(ss) THEN Raise("ValueError")
    ELSE Ok([hours |-> IntVal(hh), minutes |-> IntVal(mm),
             seconds |-> RoundSigned(FloatVal(ss))])

TimeFields(time_str) ==
    IF time_str = PyNone THEN Raise("TypeError")
    ELSE TimeFieldsOf(Slice(time_str.s, 0, 2), Slice(time_str.s, 2, 4),
                      SliceFrom(time_str.s, 4))

\* f"{hours:02}:{minutes:02}:{seconds:02}"
HMS(hours, minutes, seconds) ==
    Fmt02(hours) \o <<":">> \o Fmt02(minutes) \o <<":">> \o Fmt02(seconds)

\* What parse_time returns for the outcome r of its conversions.
TimeOrNone(r) == IF ~r.ok THEN PyNone ELSE PyStr(HMS(r.val.hours, r.val.minutes, r.val.seconds))

\* parse_time(time_str): "HH:MM:SS", or None when a conversion fails.
parse_time(time_str) == TimeOrNone(TimeFields(time_str))

IsLeap(y) == (y % 4 = 0 /\ y % 100 # 0) \/ y % 400 = 0

DaysIn(y, m) ==
    IF m = 2 THEN (IF IsLeap(y) THEN 29 ELSE 28)
    ELSE IF m \in {4, 6, 9, 11} THEN 30 ELSE 31

\* f"{n:04}" as datetime.isoformat() writes a year.
Pad04(n, digits) ==
    IF n < 10 THEN <<"0", "0", "0">> \o digits
    ELSE IF n < 100 THEN <<"0", "0">> \o digits
    ELSE IF n < 1000 THEN <<"0">> \o digits
    ELSE digits

Fmt04(n) == Pad04(n, NatText(n))

\* "if year < 2000: year += 2000"
Year4(y) == IF y < 2000 THEN y + 2000 ELSE y

\* datetime.datetime(year, month, day, hours, minutes, seconds).isoformat():
\* ValueError for a field out of range.
IsoFormat(year, month, day, t) ==
    IF \/ year < 1 \/ year > 9999
       \/ month < 1 \/ month > 12
       \/ day < 1 \/ day > DaysIn(year, month)
       \/ t.hours < 0 \/ t.hours > 23
       \/ t.minutes < 0 \/ t.minutes > 59
       \/ t.seconds < 0 \/ t.seconds > 59
    THEN Raise("ValueError")
    ELSE Ok(PyStr(Fmt04(year) \o <<"-">> \o Fmt02(month) \o <<"-">> \o Fmt02(day)
                  \o <<"T">> \o HMS(t.hours, t.minutes, t.seconds)))

\* The conversions of the date after those of the time (outcome r).
DateFieldsOf(r, dd, mm, yy) ==
    IF ~r.ok THEN r
    ELSE IF ~IsIntText(dd) THEN Raise("ValueError")
    ELSE IF ~IsIntText(mm) THEN Raise("ValueError")
    ELSE IF ~IsIntText(yy) THEN Raise("ValueError")
    ELSE IsoFormat(Year4(IntVal(yy)), IntVal(mm), IntVal(dd), r.val)

\* parse_datetime(date_str, time_str): an ISO date-time, or the ValueError of a
\* failed conversion or of datetime.datetime() for a field out of range.
parse_datetime(date_str, time_str) ==
    DateFieldsOf(TimeFields(PyStr(time_str)), Slice(date_str, 0, 2),
                 Slice(date_str, 2, 4), SliceFrom(date_str, 4))

(***************************************************************************)
(* Access to the fields of a sentence.  parts[i] is 0-based, as in Python. *)
(***************************************************************************)
Has(parts, i) == i < Len(parts)

\* parts[i]
Part(parts, i) == IF Has(parts, i) THEN Ok(PyStr(parts[i + 1])) ELSE Raise("IndexError")

\* parse_float(parts[i])
PartFloat(parts, i) ==
    IF Has(parts, i) THEN Ok(parse_float(PyStr(parts[i + 1]))) ELSE Raise("IndexError")

\* parse_int(parts[i])
PartInt(parts, i) ==
    IF Has(parts, i) THEN Ok(parse_int(PyStr(parts[i + 1]))) ELSE Raise("IndexError")

\* parse_latitude(parts[i], parts[j])
PartLatitude(parts, i, j) ==
    IF Has(parts, i) /\ Has(parts, j)
    THEN parse_latitude(PyStr(parts[i + 1]), PyStr(parts[j + 1]))
    ELSE Raise("IndexError")

\* parse_longitude(parts[i], parts[j])
PartLongitude(parts, i, j) ==
    IF Has(parts, i) /\ Has(parts, j)
    THEN parse_longitude(PyStr(parts[i + 1]), PyStr(parts[j + 1]))
    ELSE Raise("IndexError")

\* parts[i][0]: the first character of a field; IndexError when the field is
\* missing or empty.
PartFirstChar(parts, i) ==
    IF Has(parts, i) /\ Len(parts[i + 1]) >= 1
    THEN Ok(PyStr(<<parts[i + 1][1]>>))
    ELSE Raise("IndexError")

\* A dict display {k1: e1, k2: e2, ...}: the values are evaluated in order and
\* the first exception leaves the display; otherwise the dict is built.
Failed(rs) == \E i \in 1..Len(rs) : ~rs[i].ok

FirstFailure(rs) ==
    rs[CHOOSE i \in 1..Len(rs) : ~rs[i].ok /\ \A j \in 1..(i - 1) : rs[j].ok]

\* The dict of a display with the keys keys, from the outcomes rs of its values.
Dict(keys, rs) ==
    IF Failed(rs) THEN Raise(FirstFailure(rs).exc)
    ELSE Ok([k \in {keys[i] : i \in 1..Len(keys)} |->
                rs[CHOOSE i \in 1..Len(keys) : keys[i] = k].val])

\* data[key] = value, for the outcomes of data and of value.
SetKey(data, key, value) ==
    IF ~data.ok THEN data
    ELSE IF ~value.ok THEN value
    ELSE Ok((key :> value.val) @@ data.val)

(***************************************************************************)
(* GSV (decoders/gsv.py; main.py parse_nmea holds the same loop).          *)
(***************************************************************************)
\* range(4, len(parts) - 4, 4), filtered by "if len(parts) >= i + 4".
GsvRange(parts) ==
    {i \in 4..(Len(parts) - 5) : (i - 4) % 4 = 0 /\ Len(parts) >= i + 4}

\* The satellite_info dict main.py builds at index i.
GsvSatellite(parts, i) ==
    [satellite_prn |-> parse_int(PyStr(parts[i + 1])),
     elevation |-> parse_int(PyStr(parts[i + 2])),
     azimuth |-> parse_int(PyStr(parts[i + 3])),
     snr |-> parse_int(PyStr(parts[i + 4]))]

\* The GSV branch of parse_nmea in main.py.
main_GSV(parts) ==
    Dict(<<"num_messages", "message_number", "num_satellites", "satellites">>,
         <<PartInt(parts, 1), PartInt(parts, 2), PartInt(parts, 3),
           Ok([k \in 1..Cardinality(GsvRange(parts)) |-> GsvSatellite(parts, 4 * k)])>>)

\* The satellite_info dict decoders/gsv.py builds at index i.
GsvSatelliteInfo(parts, i) ==
    [satellite_prn |-> parse_int(PyStr(parts[i + 1])),
     elevation_angle |-> parse_int(PyStr(parts[i + 2])),
     azimuth_angle |-> parse_int(PyStr(parts[i + 3])),
     snr |-> parse_int(PyStr(parts[i + 4]))]

\* decoders/gsv.py decode(parts)
gsv_decode(parts) ==
    Dict(<<"gsv_messages", "message_number", "satellites_in_view", "satellites">>,
         <<PartInt(parts, 1), PartInt(parts, 2), PartInt(parts, 3),
           Ok([k \in 1..Cardinality(GsvRange(parts)) |-> GsvSatelliteInfo(parts, 4 * k)])>>)

(***************************************************************************)
(* main.py parse_nmea: the decoders of the listener.                       *)
(***************************************************************************)

\* parts[k][0:6] handed to parse_time.
PartTime6(parts, k) ==
    IF Has(parts, k) THEN Ok(parse_time(PyStr(Slice(parts[k + 1], 0, 6))))
    ELSE Raise("IndexError")

\* data["mode"] = parts[k][0], or None on IndexError.
ModeOrNone(parts, k) ==
    IF PartFirstChar(parts, k).ok THEN PartFirstChar(parts, k).val ELSE PyNone

main_GGA(parts) ==
    Dict(<<"timeUTC", "latitude", "longitude", "fix_quality", "num_satellites",
           "hdop", "altitude", "altitude_units">>,
         <<PartTime6(parts, 1), PartLatitude(parts, 2, 3),
           PartLongitude(parts, 4, 5), Part(parts, 6), PartInt(parts, 7),
           PartFloat(parts, 8), PartFloat(parts, 9), Part(parts, 10)>>)

main_GLL(parts) ==
    Dict(<<"latitude", "longitude", "timeUTC", "status", "mode">>,
         <<PartLatitude(parts, 1, 2), PartLongitude(parts, 3, 4),
           PartTime6(parts, 5), Part(parts, 6), Ok(ModeOrNone(parts, 7))>>)

main_HDT(parts) ==
    Dict(<<"heading", "reference">>, <<PartFloat(parts, 1), Part(parts, 2)>>)

main_MDA(parts) ==
    Dict(<<"pressure_inches", "pressure_bars", "temperature_air",
           "temperature_water", "humidity_relative", "dew_point">>,
         <<PartFloat(parts, 1), PartFloat(parts, 3), PartFloat(parts, 5),
           PartFloat(parts, 7), PartFloat(parts, 9), PartFloat(parts, 11)>>)

main_MWV(parts) ==
    Dict(<<"wind_angle", "reference", "wind_speed", "units", "status">>,
         <<PartFloat(parts, 1), Part(parts, 2), PartFloat(parts, 3),
           Part(parts, 4),
           IF ~Has(parts, 5) THEN Raise("IndexError") ELSE Ok(ModeOrNone(parts, 5))>>)

main_RMC(parts) ==
    Dict(<<"timeUTC", "status", "latitude", "longitude", "speed_knots",
           "track_angle", "magnetic_variation">>,
         <<IF Has(parts, 9) THEN parse_datetime(parts[10], parts[2])
           ELSE Raise("IndexError"),
           Part(parts, 2), PartLatitude(parts, 3, 4),
           PartLongitude(parts, 5, 6), PartFloat(parts, 7), PartFloat(parts, 8),
           Ok(IF Len(parts) > 11 THEN PyStr(parts[11] \o <<" ">> \o parts[12]) ELSE PyNone)>>)

main_RSA(parts) ==
    IF ~Has(parts, 2) THEN Raise("IndexError")
    ELSE IF Upper(parts[3]) = <<"A">>
         THEN Ok([rudder_angle |-> parse_float(PyStr(parts[2]))])
         ELSE Ok([rudder_angle |-> PyNone])

main_VTG(parts) ==
    Dict(<<"course_true", "reference_true", "course_magnetic",
           "reference_magnetic", "speed_knots", "speed_kmh", "mode">>,
         <<PartFloat(parts, 1), Part(parts, 2), PartFloat(parts, 3),
           Part(parts, 4), PartFloat(parts, 5), PartFloat(parts, 7),
           Ok(ModeOrNone(parts, 9))>>)

\* Lines 189-190: if parts[2].upper() == 'L', data[key] = -data[key].
NegateKeyIfLeft(data, key, parts) ==
    IF ~data.ok THEN data
    ELSE IF Upper(parts[3]) # <<"L">> THEN data
    ELSE SetKey(data, key, Neg(data.val[key]))

main_VWR(parts) ==
    NegateKeyIfLeft(Dict(<<"wind_apparent_angle", "wind_speed_apparent_knots",
                           "wind_speed_apparent_mps", "wind_speed_apparent_kmh">>,
                         <<PartFloat(parts, 1), PartFloat(parts, 3),
                           PartFloat(parts, 5), PartFloat(parts, 7)>>),
                    "wind_apparent_angle", parts)

\* Lines 84-193: the branch of parts[0][3:].
main_branch(sentence_type, parts) ==
    CASE sentence_type = <<"G", "G", "A">> -> main_GGA(parts)
      [] sentence_type = <<"G", "L", "L">> -> main_GLL(parts)
      [] sentence_type = <<"G", "S", "V">> -> main_GSV(parts)
      [] sentence_type = <<"H", "D", "T">> -> main_HDT(parts)
      [] sentence_type = <<"M", "D", "A">> -> main_MDA(parts)
      [] sentence_type = <<"M", "W", "V">> -> main_MWV(parts)
      [] sentence_type = <<"R", "M", "C">> -> main_RMC(parts)
      [] sentence_type = <<"R", "S", "A">> -> main_RSA(parts)
      [] sentence_type = <<"V", "T", "G">> -> main_VTG(parts)
      [] sentence_type = <<"V", "W", "R">> -> main_VWR(parts)
      [] OTHER -> Raise("UnknownNMEASentence")

\* parse_nmea(sentence) of main.py: the dict, or the exception that leaves it.
main_parse_nmea(sentence) ==
    main_branch(SliceFrom(Split(Strip(sentence))[1], 3), Split(Strip(sentence)))

(***************************************************************************)
(* parse_nmea/decoders: the decoders of the parse entry point.             *)
(***************************************************************************)
\* x *= factor for a float factor given in millionths: TypeError for None.
\* The product is v.f * factor / 10^6, computed in two parts to stay within
\* TLC's 32-bit integers.
Times(v, factor) ==
    IF v.t = "float"
    THEN Ok(PyFloat((v.f * (factor \div 1000) + (v.f * (factor % 1000)) \div 1000)
                    \div 1000))
    ELSE Raise("TypeError")

\* x *= -1: the negated number, the empty text for a str, TypeError for None.
TimesMinusOne(v) ==
    IF v.t = "float" THEN Ok(PyFloat(0 - v.f))
    ELSE IF v.t = "int" THEN Ok(PyInt(0 - v.i))
    ELSE IF v.t = "str" THEN Ok(PyStr(<<>>))
    ELSE Raise("TypeError")

\* 1.94384 and 0.539957, in millionths.
MpsToKnots == 1943840
KphToKnots == 539957

\* "if <unit> != 'M': raise NMEAParsingError", after the dict is built.
RequireMeters(data, parts) ==
    IF ~data.ok THEN data
    ELSE IF ~Has(parts, 10) THEN Raise("IndexError")
    ELSE IF Upper(parts[11]) # <<"M">> THEN Raise("NMEAParsingError")
    ELSE data

\* decoders/gga.py decode(parts)
gga_decode(parts) ==
    RequireMeters(Dict(<<"timeUTC", "latitude", "longitude", "fix_quality",
                         "num_satellites", "hdop", "altitude_meter">>,
                       <<PartTime6(parts, 1), PartLatitude(parts, 2, 3),
                         PartLongitude(parts, 4, 5), Part(parts, 6),
                         PartInt(parts, 7), PartFloat(parts, 8),
                         PartFloat(parts, 9)>>),
                  parts)

\* decoders/gll.py decode(parts)
gll_decode(parts) ==
    IF ~Has(parts, 6) THEN Raise("IndexError")
    ELSE IF Upper(parts[7]) # <<"A">> THEN Raise("NMEAStatusError")
    ELSE Dict(<<"latitude", "longitude", "timeUTC", "gll_mode">>,
              <<PartLatitude(parts, 1, 2), PartLongitude(parts, 3, 4),
                Ok(parse_time(PyStr(parts[6]))), Ok(ModeOrNone(parts, 7))>>)

\* decoders/hdt.py decode(parts)
hdt_decode(parts) ==
    IF ~Has(parts, 2) THEN Raise("IndexError")
    ELSE IF Upper(parts[3]) # <<"T">> THEN Raise("NMEAParsingError")
    ELSE Ok([hdg_true |-> parse_float(PyStr(parts[2]))])

\* Lines 30-37 of decoders/mwv.py: the speed in knots for the unit.
MwvKnots(speed, unit) ==
    IF unit = <<"N">> THEN Ok(speed)
    ELSE IF unit = <<"M">> THEN Times(speed, MpsToKnots)
    ELSE IF unit = <<"K">> THEN Times(speed, KphToKnots)
    ELSE Raise("NMEAParsingError")

\* Lines 17-39 of decoders/mwv.py, for the reference and the speed in knots.
MwvData(reference, angle, value_knot) ==
    IF reference \notin {<<"T">>, <<"R">>, <<>>} THEN Raise("NMEAParsingError")
    ELSE IF ~value_knot.ok THEN value_knot
    ELSE IF reference = <<"T">>
    THEN Ok([twa |-> angle, tws_knots |-> value_knot.val])
    ELSE Ok([awa |-> angle, aws_knots |-> value_knot.val])

\* decoders/mwv.py decode(parts)
mwv_decode(parts) ==
    IF ~Has(parts, 5) THEN Raise("IndexError")
    ELSE IF Upper(parts[6]) # <<"A">> THEN Raise("NMEAStatusError")
    ELSE MwvData(Upper(parts[3]), parse_float(PyStr(parts[2])),
                 MwvKnots(parse_float(PyStr(parts[4])), Upper(parts[5])))

\* Lines 15-16 of decoders/vwr.py: if parts[2].upper() == 'L', data[key] *= -1.
TimesMinusOneIfLeft(data, key, parts) ==
    IF ~data.ok THEN data
    ELSE IF Upper(parts[3]) # <<"L">> THEN data
    ELSE SetKey(data, key, TimesMinusOne(data.val[key]))

\* decoders/vwr.py decode(parts)
vwr_decode(parts) ==
    TimesMinusOneIfLeft(Dict(<<"awa", "aws_knots", "aws_mps", "aws_kph">>,
                             <<PartFloat(parts, 1), PartFloat(parts, 3),
                               PartFloat(parts, 5), PartFloat(parts, 7)>>),
                        "awa", parts)

\* decoders/rsa.py decode(parts)
rsa_decode(parts) ==
    IF ~Has(parts, 2) THEN Raise("IndexError")
    ELSE IF Upper(parts[3]) = <<"A">>
         THEN Ok([rudder_angle |-> parse_float(PyStr(parts[2]))])
         ELSE Ok([rudder_angle |-> PyNone])

\* decoders/rot.py decode(parts)
rot_decode(parts) ==
    IF ~Has(parts, 2) THEN Raise("IndexError")
    ELSE IF Upper(parts[3]) = <<"A">>
         THEN Ok([rate_of_turn |-> parse_float(PyStr(parts[2]))])
         ELSE Ok([rate_of_turn |-> PyNone])

\* data["pressure_bars"] * 1000, or None.
Millibars(bars) == IF bars # PyNone THEN PyFloat(bars.f * 1000) ELSE PyNone

\* Lines 17-20 of decoders/mda.py.
WithMillibars(data) ==
    IF ~data.ok THEN data
    ELSE SetKey(data, "pressure_millibars", Ok(Millibars(data.val["pressure_bars"])))

\* decoders/mda.py decode(parts)
mda_decode(parts) ==
    WithMillibars(Dict(<<"pressure_inches", "pressure_bars",
                         "temperature_air_celsius", "temperature_water_celsius",
                         "humidity_relative", "dew_point_celsius", "twd_true",
                         "twd_magnetic", "tws_knots", "tws_mps">>,
                       <<PartFloat(parts, 1), PartFloat(parts, 3),
                         PartFloat(parts, 5), PartFloat(parts, 7),
                         PartFloat(parts, 9), PartFloat(parts, 11),
                         PartFloat(parts, 13), PartFloat(parts, 15),
                         PartFloat(parts, 17), PartFloat(parts, 19)>>))

\* decoders/vtg.py decode(parts)
vtg_decode(parts) ==
    Dict(<<"cog_true", "cog_magnetic", "sog_knots", "sog_kph">>,
         <<PartFloat(parts, 1), PartFloat(parts, 3), PartFloat(parts, 5),
           PartFloat(parts, 7)>>)

\* decoders/vlw.py decode(parts)
vlw_decode(parts) ==
    Dict(<<"water_total_nm", "water_since_reset_nm", "ground_total_nm",
           "ground_since_reset_nm">>,
         <<PartFloat(parts, 1), PartFloat(parts, 3), PartFloat(parts, 5),
           PartFloat(parts, 7)>>)

\* a + b of two parsed floats, or None on TypeError.
SumOrNone(a, b) ==
    IF a # PyNone /\ b # PyNone THEN PyFloat(a.f + b.f) ELSE PyNone

\* Lines 13-16 of decoders/dpt.py.
WithWaterDepth(data) ==
    IF ~data.ok THEN data
    ELSE SetKey(data, "water_depth_meters",
                Ok(SumOrNone(data.val["depth_below_transducer_meters"],
                             data.val["transducer_depth_meters"])))

\* decoders/dpt.py decode(parts)
dpt_decode(parts) ==
    WithWaterDepth(Dict(<<"depth_below_transducer_meters",
                          "transducer_depth_meters">>,
                        <<PartFloat(parts, 1), PartFloat(parts, 2)>>))

\* Lines 25-26 of decoders/rmc.py: if parts[11].upper() == 'W', data[key] *= -1.
TimesMinusOneIfWest(data, key, parts) ==
    IF ~data.ok THEN data
    ELSE IF ~Has(parts, 11) THEN Raise("IndexError")
    ELSE IF Upper(parts[12]) # <<"W">> THEN data
    ELSE SetKey(data, key, TimesMinusOne(data.val[key]))

\* decoders/rmc.py decode(parts)
rmc_decode(parts) ==
    IF ~Has(parts, 2) THEN Raise("IndexError")
    ELSE IF Upper(parts[3]) # <<"A">> THEN Raise("NMEAStatusError")
    ELSE TimesMinusOneIfWest(
             Dict(<<"datetimeUTC", "status", "latitude", "longitude",
                    "sog_knots", "cog_true", "magnetic_variation">>,
                  <<IF Has(parts, 9) THEN parse_datetime(parts[10], parts[2])
                    ELSE Raise("IndexError"),
                    Part(parts, 2), PartLatitude(parts, 3, 4),
                    PartLongitude(parts, 5, 6), PartFloat(parts, 7),
                    PartFloat(parts, 8), Part(parts, 10)>>),
             "magnetic_variation", parts)

(***************************************************************************)
(* parse_nmea/__init__.py parse: the parse entry point.                    *)
(***************************************************************************)
\* The modules of parse_nmea/decoders that importlib.import_module finds.
DecoderModules ==
    {<<"d", "p", "t">>, <<"g", "g", "a">>, <<"g", "l", "l">>, <<"h", "d", "t">>,
     <<"m", "d", "a">>, <<"m", "w", "v">>, <<"r", "m", "c">>, <<"r", "o", "t">>,
     <<"r", "s", "a">>, <<"v", "l", "w">>, <<"v", "t", "g">>, <<"v", "w", "r">>}

\* m.decode(parts) of the module named name.
ModuleDecode(name, parts) ==
    CASE name = <<"d", "p", "t">> -> dpt_decode(parts)
      [] name = <<"g", "g", "a">> -> gga_decode(parts)
      [] name = <<"g", "l", "l">> -> gll_decode(parts)
      [] name = <<"h", "d", "t">> -> hdt_decode(parts)
      [] name = <<"m", "d", "a">> -> mda_decode(parts)
      [] name = <<"m", "w", "v">> -> mwv_decode(parts)
      [] name = <<"r", "m", "c">> -> rmc_decode(parts)
      [] name = <<"r", "o", "t">> -> rot_decode(parts)
      [] name = <<"r", "s", "a">> -> rsa_decode(parts)
      [] name = <<"v", "l", "w">> -> vlw_decode(parts)
      [] name = <<"v", "t", "g">> -> vtg_decode(parts)
      [] name = <<"v", "w", "r">> -> vwr_decode(parts)

\* parse without line 43: the checksum is tested and left on the sentence.
StripChecksumKept(sentence) == sentence

\* The sentence with "*" and what follows it cut off.
StripChecksum(sentence) ==
    IF Find(sentence, "*") = -1 THEN sentence
    ELSE Slice(sentence, 0, Find(sentence, "*"))

\* Lines 57-63 of parse: the type and the timestamp added to the decoded data.
Stamp(data, sentence_type, t) ==
    IF ~data.ok THEN data
    ELSE Ok([sentence_type |-> PyStr(Upper(sentence_type)),
             timestamp |-> PyInt(t)] @@ data.val)

\* Lines 47-63 of parse, for the fields and the type of the sentence.
ParseParts(parts, sentence_type, t) ==
    IF Lower(sentence_type) \notin DecoderModules
    THEN [ok |-> FALSE, exc |-> "UnknownNMEASentence",
          sentence_type |-> sentence_type]
    ELSE Stamp(ModuleDecode(Lower(sentence_type), parts), sentence_type, t)

\* The dispatch and decode of parse (lines 45-63) on a sentence whose checksum
\* has been cut off, at clock t (milliseconds).
ParseBody(sentence, t) ==
    ParseParts(Split(Strip(sentence)), SliceFrom(Split(Strip(sentence))[1], 3), t)

\* Lines 35-43 of parse: the checksum test of a sentence with "*" at asterick.
ChecksumFailure(sentence, asterick, cs_msg) ==
    IF asterick = -1 THEN Ok(TRUE)
    ELSE IF ~cs_msg.ok THEN cs_msg
    ELSE IF checksum(Slice(sentence, 1, asterick)) # cs_msg.val
    THEN [ok |-> FALSE, exc |-> "NMEAParsingError", msg |-> "Checksum mismatch"]
    ELSE Ok(TRUE)

\* What parse does after the checksum test with outcome c.
ParseAfter(c, sentence, t) == IF ~c.ok THEN c ELSE ParseBody(StripChecksum(sentence), t)

\* parse(sentence) at clock t: the dict, or the exception that leaves it.
parse(sentence, t) ==
    IF ~StartsWith(sentence, "$")
    THEN [ok |-> FALSE, exc |-> "NMEAParsingError", msg |-> "Invalid NMEA sentence"]
    ELSE ParseAfter(ChecksumFailure(sentence, Find(sentence, "*"),
                                    IntBase16(SliceFrom(sentence, Find(sentence, "*") + 1))),
                    sentence, t)

(***************************************************************************)
(* The lines the socket delivers.                                          *)
(***************************************************************************)
\* Texts of a numeric field: a number, nothing, not a number.
NumTexts == {<<"3", "0", ".", "0">>, <<>>, <<"a", "b", "c">>}

\* Texts of a latitude field: degrees and minutes, nothing, zero, and a number
\* that is no degrees-and-minutes text.
LatTexts == {<<"4", "5", "3", "0", ".", "0", "0", "0">>, <<>>, <<"0">>, <<"4", "5", ".", "5">>}

HdtBodies ==
    {<<"I", "I", "H", "D", "T", ",", "4", "5", ".", "0", ",", "T">>, <<"I", "I", "H", "D", "T">>, <<"I", "I", "H", "D", "T", "X", ",", "4", "5", ".", "0", ",", "T">>, <<"I", "I", "h", "d", "t", ",", "4", "5", ".", "0", ",", "T">>}

VwrBodies ==
    {Join(<<<<"I", "I", "V", "W", "R">>, a, side, <<"5", ".", "0">>, <<"N">>, <<"2", ".", "6">>, <<"M">>, <<"9", ".", "3">>, <<"K">>>>) :
        a \in NumTexts, side \in {<<"L">>, <<"R">>}}

GllBodies ==
    {Join(<<<<"G", "P", "G", "L", "L">>, lat, ns, <<"1", "2", "2", "4", "0", ".", "0", "0", "0">>, <<"W">>, <<"1", "5", "1", "2", "0", "9", ".", "8", "0">>, <<"A">>, <<"A">>>>) :
        lat \in LatTexts, ns \in {<<"N">>, <<"S">>}}

\* Sentences of types the publish policy does not list, and bodies too short
\* to hold a type.
OtherBodies ==
    {<<"G", "P", "G", "S", "V", ",", "1", ",", "1", ",", "0", "4", ",", "0", "5", ",", "4", "5", ",", "1", "2", "0", ",", "4", "0">>, <<"G", "P", "X", "Y", "Z", ",", "1">>, <<>>, <<"G", "P">>}

\* What may follow the body: nothing, the checksum, a wrong checksum, and text
\* after "*" that is no hexadecimal number.
Suffixes(body) ==
    {<<>>,
     <<"*">> \o Hex02X(checksum(body)),
     <<"*">> \o Hex02X((checksum(body) + 1) % 256),
     <<"*", "Z", "Z">>,
     <<"*">>}

\* The bodies that are also sent with each of the suffixes.
SuffixedBodies == {<<"I", "I", "H", "D", "T", ",", "4", "5", ".", "0", ",", "T">>, <<"G", "P", "X", "Y", "Z", ",", "1">>}

Sentences ==
    {<<"$">> \o body : body \in HdtBodies \cup GllBodies \cup OtherBodies}
    \cup UNION {{<<"$">> \o body \o sfx : sfx \in Suffixes(body)} : body \in SuffixedBodies}

\* Lines as read from the socket: sentences, a sentence between blanks, and a
\* line that does not start with "$".
SocketLines ==
    Sentences \cup {<<" ">> \o <<"$", "I", "I", "H", "D", "T", ",", "4", "5", ".", "0", ",", "T">> \o <<" ">>, <<"I", "I", "H", "D", "T", ",", "4", "5", ".", "0", ",", "T">>}


(***************************************************************************)
(* main.py: the publish gate and the listener.                             *)
(***************************************************************************)
\* config_sample.py PUBLISH_INTERVALS
PUBLISH_INTERVALS ==
    [k \in {<<"G", "G", "A">>, <<"G", "L", "L">>, <<"H", "D", "T">>, <<"M", "D", "A">>, <<"M", "W", "V">>, <<"R", "M", "C">>, <<"R", "S", "A">>, <<"V", "T", "G">>, <<"V", "W", "R">>} |-> 10000]

\* time.time(): the clock in seconds, a float; held in thousandths of a second
\* (TLC's integers are 32 bits wide, so a time is not held in millionths).
time_time == now

\* A number of seconds as a time.time() difference is held.
Seconds(n) == n * 1000

\* The value last_published[k] evaluates to: 0 for a missing key.
LpValue(lp, k) == IF k \in DOMAIN lp THEN lp[k] ELSE 0

\* The defaultdict after last_published[k] was evaluated: a missing key is
\* inserted with the default.
LpTouched(lp, k) == IF k \in DOMAIN lp THEN lp ELSE (k :> 0) @@ lp

\* The defaultdict after last_published[k] = v.
LpSet(lp, k, v) == (k :> v) @@ lp

\* A publish_nmea that records the time although parse_nmea raised.
LpAfterFailureRecorded(lp, sentence_type, current_time) ==
    LpSet(lp, sentence_type, current_time)

\* Lines 56-59: last_published when parse_nmea raised; line 53 evaluated
\* last_published[sentence_type] and nothing is assigned.
LpAfterFailure(lp, sentence_type, current_time) == LpTouched(lp, sentence_type)

\* A publish_nmea without the return of line 54.
WithinRateLimitNever(lp, sentence_type, current_time) == FALSE

\* Lines 53-54: whether the rate limit skips a sentence of this type at
\* current_time (a float of seconds against the configured number).
WithinRateLimit(lp, sentence_type, current_time) ==
    current_time - LpValue(lp, sentence_type) < Seconds(PUBLISH_INTERVALS[sentence_type])

\* Lines 40-43: int() raises ValueError when the text after "*" is no
\* hexadecimal number; else whether the checksum matches.
ChecksumCompare(cs, cs_msg) == IF ~cs_msg.ok THEN cs_msg ELSE Ok(cs = cs_msg.val)

ChecksumAt(nmea_sentence, asterick) ==
    ChecksumCompare(checksum(Slice(nmea_sentence, 1, asterick)),
                    IntBase16(SliceFrom(nmea_sentence, asterick + 1)))

\* Lines 38-46: the ValueError of int(), else whether the checksum matches (it
\* does when there is no "*").
ChecksumCheck(nmea_sentence) ==
    IF Find(nmea_sentence, "*") = -1 THEN Ok(TRUE)
    ELSE ChecksumAt(nmea_sentence, Find(nmea_sentence, "*"))

\* Line 47 on the stripped sentence.
SentenceType(nmea_sentence) == Slice(StripChecksum(nmea_sentence), 3, 6)

\* Lines 62-65: the topic and payload handed to mqtt_client.publish.
Message(sentence_type, parsed_data) ==
    [topic |-> sentence_type,
     payload |-> [sentence_type |-> PyStr(Upper(sentence_type)),
                  timestamp |-> PyInt((now + 500) \div 1000)] @@ parsed_data]

NoMessage == [topic |-> <<>>]

\* Lines 56-66, for the outcome parsed_data of parse_nmea: only
\* UnknownNMEASentence is caught; the dict is published and the time recorded.
AfterParse(lp, sentence_type, current_time, mismatch, parsed_data) ==
    IF ~parsed_data.ok /\ parsed_data.exc = "UnknownNMEASentence"
    THEN [kind |-> "unknown",
          lp |-> LpAfterFailure(lp, sentence_type, current_time),
          mismatch |-> mismatch]
    ELSE IF ~parsed_data.ok
    THEN [kind |-> "raised", exc |-> parsed_data.exc,
          lp |-> LpAfterFailure(lp, sentence_type, current_time)]
    ELSE [kind |-> "published",
          msg |-> Message(sentence_type, parsed_data.val),
          lp |-> LpSet(lp, sentence_type, current_time),
          mismatch |-> mismatch]

\* A publish_nmea that evaluates last_published[sentence_type] before the test
\* of line 49.
GateReadsFirst(lp, nmea_sentence, sentence_type, mismatch) ==
    IF sentence_type \notin DOMAIN PUBLISH_INTERVALS
    THEN [kind |-> "skipped", lp |-> LpTouched(lp, sentence_type),
          mismatch |-> mismatch]
    ELSE IF WithinRateLimit(lp, sentence_type, time_time)
    THEN [kind |-> "suppressed", lp |-> LpTouched(lp, sentence_type),
          mismatch |-> mismatch]
    ELSE AfterParse(lp, sentence_type, time_time, mismatch,
                    main_parse_nmea(nmea_sentence))

\* Lines 47-66, on the sentence without its checksum (nmea_sentence as line 46
\* leaves it).
Gate(lp, nmea_sentence, sentence_type, mismatch) ==
    IF sentence_type \notin DOMAIN PUBLISH_INTERVALS
    THEN [kind |-> "skipped", lp |-> lp, mismatch |-> mismatch]
    ELSE IF WithinRateLimit(lp, sentence_type, time_time)
    THEN [kind |-> "suppressed", lp |-> LpTouched(lp, sentence_type),
          mismatch |-> mismatch]
    ELSE AfterParse(lp, sentence_type, time_time, mismatch,
                    main_parse_nmea(nmea_sentence))

\* Lines 38-66, for the outcome check of the checksum test: a mismatch is
\* printed and the sentence goes on.
AfterChecksum(lp, nmea_sentence, check) ==
    IF ~check.ok THEN [kind |-> "raised", exc |-> "ValueError", lp |-> lp]
    ELSE Gate(lp, StripChecksum(nmea_sentence), SentenceType(nmea_sentence),
              ~check.val)

\* What publish_nmea(mqtt_client, nmea_sentence) does, as a record:
\*   kind: "raised" (an exception leaves publish_nmea), "skipped" (line 50),
\*         "suppressed" (line 54), "unknown" (line 59) or "published";
\*   lp: last_published afterwards;  msg: the message published, if any;
\*   mismatch: whether line 44 printed a checksum mismatch.
PublishResult(lp, nmea_sentence) ==
    IF ~StartsWith(nmea_sentence, "$")
    THEN [kind |-> "raised", exc |-> "ValueError", lp |-> lp]
    ELSE AfterChecksum(lp, nmea_sentence, ChecksumCheck(nmea_sentence))

(***************************************************************************)
(* The listener: one line at a time.                                       *)
(***************************************************************************)
\* How far the clock may advance between two lines, in milliseconds.
Ticks == {5000, 10000000}

\* The clock when the process starts.
StartClocks == {0, 1000000000}

Workers == {1, 2}

Init ==
    /\ now \in StartClocks
    /\ nticks = 0
    /\ last_published = [k \in {} |-> 0]
    /\ line = <<>>
    /\ outcome = [kind |-> "none"]
    /\ sink = NoMessage
    /\ running = TRUE
    /\ call = [fn |-> "none"]
    /\ result = [ok |-> TRUE]
    /\ wpc = [w \in Workers |-> "idle"]
    /\ wline = [w \in Workers |-> <<>>]
    /\ wtime = [w \in Workers |-> 0]

\* The system clock advances.
Tick(d) ==
    /\ nticks < MaxTicks
    /\ now' = now + d
    /\ nticks' = nticks + 1
    /\ UNCHANGED <<last_published, line, outcome, sink, running,
                   call, result, wpc, wline, wtime>>

\* listen_nmea, one turn of "for line in nmea_stream": the line is stripped and,
\* when it starts with "$", handed to publish_nmea; an exception that leaves
\* publish_nmea leaves listen_nmea and ends the process.
listen_nmea(raw) ==
    /\ running
    /\ \E stripped \in {Strip(raw)} :
        /\ line' = stripped
        /\ IF ~StartsWith(stripped, "$")
           THEN /\ outcome' = [kind |-> "filtered"]
                /\ sink' = NoMessage
                /\ UNCHANGED <<last_published, running>>
           ELSE \E r \in {PublishResult(last_published, stripped)} :
                /\ outcome' = IF r.kind = "raised"
                              THEN [kind |-> r.kind, exc |-> r.exc]
                              ELSE IF r.kind = "published"
                              THEN [kind |-> r.kind, mismatch |-> r.mismatch,
                                    previous |-> LpValue(last_published,
                                                         SentenceType(stripped))]
                              ELSE [kind |-> r.kind, mismatch |-> r.mismatch]
                /\ last_published' = r.lp
                /\ sink' = IF r.kind = "published" THEN r.msg ELSE NoMessage
                /\ running' = (r.kind # "raised")
    /\ UNCHANGED <<now, nticks, call, result, wpc, wline, wtime>>

Next ==
    \/ \E d \in Ticks : Tick(d)
    \/ \E raw \in SocketLines : listen_nmea(raw)

Spec == Init /\ [][Next]_vars

(***************************************************************************)
(* The publish gate of the listener.                                       *)
(***************************************************************************)
\* The step handed the line line' to publish_nmea.
Handled == nticks' = nticks /\ StartsWith(line', "$")

\* The checksum of the line is absent or matches.
ChecksumGood(l) == ChecksumCheck(l).ok /\ ChecksumCheck(l).val

\* The line carries a hexadecimal checksum that differs from the computed one.
ChecksumDiffers(l) == ChecksumCheck(l).ok /\ ~ChecksumCheck(l).val

\* The type of the line has a configured interval.
Configured(l) == SentenceType(l) \in DOMAIN PUBLISH_INTERVALS

\* The line decodes to a record.
Decodable(l) == main_parse_nmea(StripChecksum(l)).ok

\* A decodable line of a configured type.
Valid(l) == ChecksumGood(l) /\ Configured(l) /\ Decodable(l)

\* A record of the type was emitted before.
PublishedBefore(type) == LpValue(last_published, type) # 0

\* The step handed a record of the type to the sink.
Emits(type) == Handled /\ sink' # NoMessage /\ sink'.topic = type

\* The step left the entry of the type as it was.
Keeps(type) == LpValue(last_published', type) = LpValue(last_published, type)

\* Every type that has or gets an entry.
Entries == DOMAIN last_published \cup DOMAIN last_published'

\* C1: with timestamps and intervals in milliseconds, a decodable record of a
\* configured type that was emitted before is suppressed when its timestamp is
\* less than the interval after the last emission, and is otherwise (equality
\* included) handed to the sink, its timestamp becoming the entry.
C1_GateRuleInMilliseconds ==
    [][(Handled /\ Valid(line') /\ PublishedBefore(SentenceType(line')))
       => IF now - LpValue(last_published, SentenceType(line'))
               < PUBLISH_INTERVALS[SentenceType(line')]
          THEN sink' = NoMessage /\ Keeps(SentenceType(line'))
          ELSE /\ Emits(SentenceType(line'))
               /\ LpValue(last_published', SentenceType(line')) = now]_vars

\* C2: the first decodable record of a configured type is accepted whatever
\* its timestamp.
C2_FirstRecordAccepted ==
    [][(Handled /\ Valid(line') /\ ~PublishedBefore(SentenceType(line')))
       => /\ Emits(SentenceType(line'))
          /\ LpValue(last_published', SentenceType(line')) = now]_vars

\* C3: a sentence of a type without a configured interval is never emitted; it
\* is dropped without an error and the publish state stays as it is.
C3_UnconfiguredDroppedSilently ==
    [][(Handled /\ ~Configured(line'))
       => /\ sink' = NoMessage
          /\ \A type \in Entries : Keeps(type)
          /\ outcome'.kind # "raised"
          /\ running']_vars

\* C4: a sentence whose hexadecimal checksum differs from the computed one is
\* not decoded: no record of it reaches the sink and the publish state stays
\* as it is.
C4_MismatchNotPublished ==
    [][(Handled /\ ChecksumDiffers(line'))
       => /\ sink' = NoMessage
          /\ \A type \in Entries : Keeps(type)
          /\ outcome'.kind \notin {"published", "unknown"}]_vars

\* C5: no failure of a line ends the process: the listener goes on reading.
C5_ProcessKeepsRunning == running

\* C7: an entry of the publish state changes only in a step that hands a record
\* of that type to the sink; a suppressed sentence, one without a decoder and
\* one whose decode fails leave every entry as it was.
C7_MutatedOnlyOnEmission ==
    [][/\ \A type \in Entries : ~Keeps(type) => Emits(type)
       /\ (Handled /\ outcome'.kind \in {"suppressed", "unknown", "raised"})
              => \A type \in Entries : Keeps(type)]_vars

\* A sentence without a decoder passed the gate after an emission of its type,
\* and the entry still holds the time of that emission.
C7_Witness ==
    /\ outcome.kind = "unknown"
    /\ SentenceType(line) = <<"H", "D", "T">>
    /\ PublishedBefore(<<"H", "D", "T">>)
    /\ now - LpValue(last_published, <<"H", "D", "T">>) >= Seconds(PUBLISH_INTERVALS[<<"H", "D", "T">>])

\* C16 as stated: in every reachable state the keys of last_published are
\* exactly the types of PUBLISH_INTERVALS.
C16_KeysExactlyPolicy == DOMAIN last_published = DOMAIN PUBLISH_INTERVALS

\* C16, amended: in every reachable state the keys of last_published are types
\* of PUBLISH_INTERVALS; no key of another type is ever created, and the key of
\* a configured type exists once the gate has read it.
C16_KeysWithinPolicy ==
    /\ DOMAIN last_published \subseteq DOMAIN PUBLISH_INTERVALS
    /\ (outcome.kind \in {"suppressed", "unknown", "published"})
           => SentenceType(line) \in DOMAIN last_published

\* A sentence of a type without an interval was skipped after a sentence of a
\* configured type had created its key.
C16_Witness ==
    /\ outcome.kind = "skipped"
    /\ SentenceType(line) = <<"G", "S", "V">>
    /\ <<"H", "D", "T">> \in DOMAIN last_published
    /\ DOMAIN last_published # DOMAIN PUBLISH_INTERVALS

\* C18: with a clock that never goes back, two records of one type that were
\* handed to the sink were accepted at times at least the type's interval
\* apart (a record and the one of its type before it are; the times of the
\* records of a type only grow), and no entry of last_published ever decreases.
C18_EmissionsSpacedApart ==
    /\ []((outcome.kind = "published" /\ outcome.previous # 0)
              => LpValue(last_published, sink.topic) - outcome.previous
                     >= PUBLISH_INTERVALS[sink.topic])
    /\ [][\A type \in Entries :
              LpValue(last_published', type) >= LpValue(last_published, type)]_vars

\* A second record of a type was handed to the sink.
C18_Witness ==
    /\ outcome.kind = "published"
    /\ outcome.previous # 0
    /\ LpValue(last_published, sink.topic) = now

(***************************************************************************)
(* Direct calls of the decoders and field parsers.                         *)
(***************************************************************************)
\* The fields of a GSV sentence with n fields after the three header fields;
\* field k of the satellite data holds digit v, or nothing when k = gap.
GsvParts(n, v, gap) ==
    <<<<"$", "G", "P", "G", "S", "V">>, <<"1">>, <<"1">>, <<"0", "4">>>>
    \o [k \in 1..n |-> IF k = gap THEN <<>> ELSE <<v>>]

\* The fields of an MWV sentence.
MwvParts(angle, reference, speed, unit, status) ==
    <<<<"$", "I", "I", "M", "W", "V">>, angle, reference, speed, unit, status>>

\* The fields of a VWR sentence.
VwrParts(angle, side, knots) ==
    <<<<"$", "I", "I", "V", "W", "R">>, angle, side, knots, <<"N">>, <<"2", ".", "6">>, <<"M">>, <<"9", ".", "3">>, <<"K">>>>

\* Coordinate arguments: None, and texts.
CoordArgs ==
    {PyNone} \cup {PyStr(x) : x \in LatTexts \cup {<<"a", "b", "c">>, <<"1", "5", "1", "1", "3", "0", ".", "0", "0">>, <<"1", "2", "2", "4", "0", ".", "0", "0", "0">>}}

\* Hemisphere arguments; an omitted one is the default, 'N' or 'E'.
HemisphereArgs == {PyStr(<<h>>) : h \in {"N", "S", "E", "W"}}

CallGsv(parts) ==
    /\ call' = [fn |-> "gsv_decode", parts |-> parts]
    /\ result' = gsv_decode(parts)
    /\ UNCHANGED <<now, nticks, last_published, line, outcome, sink, running,
                   wpc, wline, wtime>>

CallMainGsv(parts) ==
    /\ call' = [fn |-> "main_GSV", parts |-> parts]
    /\ result' = main_GSV(parts)
    /\ UNCHANGED <<now, nticks, last_published, line, outcome, sink, running,
                   wpc, wline, wtime>>

CallMwv(parts) ==
    /\ call' = [fn |-> "mwv_decode", parts |-> parts]
    /\ result' = mwv_decode(parts)
    /\ UNCHANGED <<now, nticks, last_published, line, outcome, sink, running,
                   wpc, wline, wtime>>

CallVwr(parts) ==
    /\ call' = [fn |-> "vwr_decode", parts |-> parts]
    /\ result' = vwr_decode(parts)
    /\ UNCHANGED <<now, nticks, last_published, line, outcome, sink, running,
                   wpc, wline, wtime>>

CallMainVwr(parts) ==
    /\ call' = [fn |-> "main_VWR", parts |-> parts]
    /\ result' = main_VWR(parts)
    /\ UNCHANGED <<now, nticks, last_published, line, outcome, sink, running,
                   wpc, wline, wtime>>

CallLatitude(latitude, hemisphere) ==
    /\ call' = [fn |-> "parse_latitude", coord |-> latitude, hemisphere |-> hemisphere]
    /\ result' = parse_latitude(latitude, hemisphere)
    /\ UNCHANGED <<now, nticks, last_published, line, outcome, sink, running,
                   wpc, wline, wtime>>

CallLongitude(longitude, hemisphere) ==
    /\ call' = [fn |-> "parse_longitude", coord |-> longitude, hemisphere |-> hemisphere]
    /\ result' = parse_longitude(longitude, hemisphere)
    /\ UNCHANGED <<now, nticks, last_published, line, outcome, sink, running,
                   wpc, wline, wtime>>

\* parse_nmea.parse(sentence), called at the clock's time.
CallParse(sentence) ==
    /\ call' = [fn |-> "parse", sentence |-> sentence]
    /\ result' = parse(sentence, now)
    /\ UNCHANGED <<now, nticks, last_published, line, outcome, sink, running,
                   wpc, wline, wtime>>

\* parse_time(time_str)
CallParseTime(time_str) ==
    /\ call' = [fn |-> "parse_time", time_str |-> time_str]
    /\ result' = Ok(parse_time(time_str))
    /\ UNCHANGED <<now, nticks, last_published, line, outcome, sink, running,
                   wpc, wline, wtime>>

\* dm_to_sd(dm)
CallDmToSd(dm) ==
    /\ call' = [fn |-> "dm_to_sd", coord |-> dm]
    /\ result' = dm_to_sd(dm)
    /\ UNCHANGED <<now, nticks, last_published, line, outcome, sink, running,
                   wpc, wline, wtime>>

\* parse_nmea(sentence) of main.py, called as publish_nmea calls it (line 57).
CallMainParse(sentence) ==
    /\ call' = [fn |-> "main_parse_nmea", sentence |-> sentence]
    /\ result' = main_parse_nmea(sentence)
    /\ UNCHANGED <<now, nticks, last_published, line, outcome, sink, running,
                   wpc, wline, wtime>>

\* The sentences handed to parse: the socket's lines, VWR sentences, sentences
\* that end in their checksum as simulate.py appends it (lines 198-199), RMC
\* sentences with and without a magnetic variation, east and west, and GGA
\* sentences whose time has a fraction of a second.
ParseLines ==
    SocketLines
    \cup {<<"$">> \o body : body \in VwrBodies}
    \cup {<<"$">> \o body \o <<"*">> \o Hex02X(checksum(body)) :
              body \in VwrBodies \cup GllBodies \cup HdtBodies}
    \cup {Join(<<<<"$", "G", "P", "R", "M", "C">>, <<"1", "5", "1", "2", "0", "9", ".", "8", "0">>,
                 status, <<"4", "5", "3", "0", ".", "0", "0", "0">>, <<"N">>,
                 <<"1", "2", "2", "4", "0", ".", "0", "0", "0">>, <<"W">>,
                 <<"5", ".", "0">>, <<"9", "0", ".", "0">>,
                 <<"0", "1", "0", "2", "2", "5">>, variation, direction, <<"A">>>>) :
              status \in {<<"A">>, <<"V">>}, variation \in {<<"1", "5", ".", "0">>, <<>>},
              direction \in {<<"E">>, <<"W">>}}
    \cup {Join(<<<<"$", "G", "P", "G", "G", "A">>, time,
                 <<"4", "5", "3", "0", ".", "0", "0", "0">>, <<"N">>,
                 <<"1", "2", "2", "4", "0", ".", "0", "0", "0">>, <<"W">>,
                 <<"1">>, <<"0", "8">>, <<"0", ".", "9">>, <<"1", "0", ".", "0">>,
                 <<"M">>>>) :
              time \in {<<"1", "5", "1", "2", "0", "9", ".", "8", "0">>,
                        <<"1", "5", "1", "2", "0", "9", ".", "0", "0">>, <<>>}}

CallNext ==
    \/ \E n \in 0..MaxSatFields, v \in {"5", "7"}, gap \in {0, 2} :
           CallGsv(GsvParts(n, v, gap))
    \/ \E n \in 0..MaxSatFields, v \in {"5", "7"}, gap \in {0, 2} :
           CallMainGsv(GsvParts(n, v, gap))
    \/ \E angle \in NumTexts, reference \in {<<"T">>, <<"R">>, <<>>, <<"X">>}, speed \in NumTexts,
          unit \in {<<"N">>, <<"M">>, <<"K">>, <<"X">>}, status \in {<<"A">>, <<"V">>} :
           CallMwv(MwvParts(angle, reference, speed, unit, status))
    \/ \E angle \in NumTexts, side \in {<<"L">>, <<"R">>}, knots \in NumTexts :
           CallVwr(VwrParts(angle, side, knots))
    \/ \E angle \in NumTexts, side \in {<<"L">>, <<"R">>}, knots \in NumTexts :
           CallMainVwr(VwrParts(angle, side, knots))
    \/ \E latitude \in CoordArgs, hemisphere \in HemisphereArgs :
           CallLatitude(latitude, hemisphere)
    \/ \E longitude \in CoordArgs, hemisphere \in HemisphereArgs :
           CallLongitude(longitude, hemisphere)
    \/ \E dm \in CoordArgs : CallDmToSd(dm)
    \/ \E time_str \in {PyNone} \cup
              {PyStr(x) : x \in {<<>>, <<"0">>, <<"a", "b", "c">>,
                                 <<"1", "5", "1", "2", "0", "9", ".", "0", "0">>,
                                 <<"1", "5", "1", "2", "0", "9", ".", "8", "0">>,
                                 <<"1", "5", "1", "2", "0", "8", ".", "5", "0">>,
                                 <<"2", "3", "5", "9", "5", "9", ".", "5", "0">>,
                                 <<"2", "3", "5", "9", "5", "9", ".", "4", "0">>,
                                 <<"2", "5", "6", "1", "9", "9">>,
                                 <<"0", "0", "0", "0", "0", "0">>}} :
           CallParseTime(time_str)
    \/ \E sentence \in ParseLines : CallParse(sentence)
    \/ \E body \in HdtBodies \cup GllBodies \cup OtherBodies :
           CallMainParse(<<"$">> \o body)

SpecCalls == Init /\ [][CallNext]_vars

\* C8: GSV decoding yields one satellite group for every complete group of 4
\* fields after the three header fields: floor(n / 4) groups for n such fields.
C8_GsvGroupsFloorOfQuarter ==
    (call.fn \in {"gsv_decode", "main_GSV"} /\ result.ok)
        => Len(result.val.satellites) = (Len(call.parts) - 4) \div 4

\* C9: a numeric field that is empty or no number never makes a decoder fail:
\* MWV with status 'A' and a known unit and reference, and VWR, return a record.
C9_EmptyNumberNeverFails ==
    /\ (/\ call.fn = "mwv_decode"
        /\ Upper(call.parts[6]) = <<"A">>
        /\ Upper(call.parts[5]) \in {<<"N">>, <<"M">>, <<"K">>}
        /\ Upper(call.parts[3]) \in {<<"T">>, <<"R">>, <<>>})
           => result.ok
    /\ call.fn \in {"vwr_decode", "main_VWR"} => result.ok

\* C10: parse_latitude and parse_longitude return None and never raise for a
\* coordinate that is None or empty, whatever the hemisphere; for a coordinate in
\* degrees and minutes 'S' (latitude) or 'W' (longitude) negates the degrees
\* and any other letter leaves them as they are.
C10_AbsentCoordinateIsNone ==
    /\ (/\ call.fn \in {"parse_latitude", "parse_longitude"}
        /\ call.coord \in {PyNone, PyStr(<<>>)})
           => result = Ok(PyNone)
    /\ (/\ call.fn \in {"parse_latitude", "parse_longitude"}
        /\ call.coord # PyNone
        /\ DmMatches(call.coord.s))
           => result.ok /\ result.val.f =
                  IF \/ call.fn = "parse_latitude" /\ call.hemisphere = PyStr(<<"S">>)
                     \/ call.fn = "parse_longitude" /\ call.hemisphere = PyStr(<<"W">>)
                  THEN 0 - dm_to_sd(call.coord).val.f
                  ELSE dm_to_sd(call.coord).val.f

\* C11: RMC decoding with status 'A' gives magnetic_variation the number of the
\* variation field, negated when the direction letter is 'W' and as it is
\* otherwise.
C11_RmcVariationSigned ==
    (/\ call.fn = "parse"
     /\ StartsWith(call.sentence, "$")
     /\ SliceFrom(Split(call.sentence)[1], 3) = <<"R", "M", "C">>
     /\ Len(Split(call.sentence)) > 11
     /\ is_number(Split(call.sentence)[11])
     /\ result.ok)
        => result.val.magnetic_variation =
               PyFloat(IF Split(call.sentence)[12] = <<"W">>
                       THEN 0 - FloatVal(Split(call.sentence)[11])
                       ELSE FloatVal(Split(call.sentence)[11]))

\* C12: a sentence '$' + body + '*' + the two hexadecimal digits of the XOR of
\* the body's characters passes the checksum test and parses to exactly what
\* '$' + body parses to; a sentence without '*' is never failed by the checksum
\* test: its outcome is that of the dispatch and decode of its fields.
C12_ChecksumRoundTrip ==
    /\ (/\ call.fn = "parse"
        /\ StartsWith(call.sentence, "$")
        /\ Find(call.sentence, "*") # -1
        /\ SliceFrom(call.sentence, Find(call.sentence, "*") + 1)
               = Hex02X(checksum(Slice(call.sentence, 1, Find(call.sentence, "*")))))
           => result = parse(Slice(call.sentence, 0, Find(call.sentence, "*")), now)
    /\ (/\ call.fn = "parse"
        /\ StartsWith(call.sentence, "$")
        /\ Find(call.sentence, "*") = -1)
           => result = ParseBody(call.sentence, now)

\* A GLL sentence that ends in its checksum was parsed to a record.
C12_Witness ==
    /\ call.fn = "parse"
    /\ Find(call.sentence, "*") # -1
    /\ SliceFrom(call.sentence, Find(call.sentence, "*") + 1)
           = Hex02X(checksum(Slice(call.sentence, 1, Find(call.sentence, "*"))))
    /\ result.ok
    /\ result.val.sentence_type = PyStr(<<"G", "L", "L">>)
    /\ "timeUTC" \in DOMAIN result.val

\* C13: the lookup of a decoder is case-insensitive and total: a sentence whose
\* three-character type is a registered type in any letter case is handed to
\* that type's decoder, and one whose type is not registered fails with
\* UnknownNMEASentence (which, raised by parse, carries the type); the types of
\* parse are the modules of parse_nmea/decoders, those of main.py's parse_nmea
\* the ten branches of its if-chain.
C13_LookupCaseInsensitiveTotal ==
    (/\ call.fn \in {"parse", "main_parse_nmea"}
     /\ StartsWith(call.sentence, "$")
     /\ Find(call.sentence, "*") = -1
     /\ Len(SliceFrom(Split(Strip(call.sentence))[1], 3)) = 3)
        => IF \/ /\ call.fn = "parse"
                 /\ Lower(SliceFrom(Split(Strip(call.sentence))[1], 3)) \in DecoderModules
              \/ /\ call.fn = "main_parse_nmea"
                 /\ Upper(SliceFrom(Split(Strip(call.sentence))[1], 3))
                        \in DOMAIN PUBLISH_INTERVALS \cup {<<"G", "S", "V">>}
           THEN result.ok \/ result.exc # "UnknownNMEASentence"
           ELSE /\ ~result.ok
                /\ result.exc = "UnknownNMEASentence"
                /\ call.fn = "parse" =>
                       result.sentence_type = SliceFrom(Split(Strip(call.sentence))[1], 3)

\* C14: parse fails with the malformed-sentence error (NMEAParsingError,
\* "Invalid NMEA sentence") when the sentence does not start with "$", and also
\* when what precedes the first comma is too short to hold a three-character
\* type after "$" and the two-character talker: never with UnknownNMEASentence.
C14_ShortBodyIsMalformed ==
    /\ (call.fn = "parse" /\ ~StartsWith(call.sentence, "$"))
           => /\ ~result.ok
              /\ result.exc = "NMEAParsingError"
              /\ result.msg = "Invalid NMEA sentence"
    /\ (/\ call.fn = "parse"
        /\ StartsWith(call.sentence, "$")
        /\ Find(call.sentence, "*") = -1
        /\ Len(Split(Strip(call.sentence))[1]) < 6)
           => /\ ~result.ok
              /\ result.exc = "NMEAParsingError"

\* C15: dm_to_sd gives None for None and for the empty text, 0.0 for '0',
\* degrees + minutes / 60 for a text in degrees and minutes, and fails with
\* ValueError for every other text, one that is no number included.
C15_DmToSdOutcomes ==
    call.fn = "dm_to_sd" =>
        IF call.coord \in {PyNone, PyStr(<<>>)} THEN result = Ok(PyNone)
        ELSE IF call.coord = PyStr(<<"0">>) THEN result = Ok(PyFloat(0))
        ELSE IF DmMatches(call.coord.s)
        THEN /\ result.ok
             /\ result.val.t = "float"
             /\ result.val.f \div Milli
                    = DigitsVal(Slice(call.coord.s, 0, Find(call.coord.s, ".") - 2))
                      + DigitsVal(Slice(call.coord.s, Find(call.coord.s, ".") - 2,
                                        Find(call.coord.s, "."))) \div 60
        ELSE ~result.ok /\ result.exc = "ValueError"

\* C17: the GGA decoder and the GLL decoder give timeUTC what parse_time gives
\* for the whole time field of the sentence, the seconds rounded to the nearest
\* whole second.
C17_SameTimeRule ==
    (/\ call.fn = "parse"
     /\ result.ok
     /\ result.val.sentence_type \in {PyStr(<<"G", "G", "A">>), PyStr(<<"G", "L", "L">>)})
        => result.val.timeUTC =
               parse_time(PyStr(Split(StripChecksum(call.sentence))
                                    [IF result.val.sentence_type = PyStr(<<"G", "G", "A">>)
                                     THEN 2 ELSE 6]))

\* C19: parse_time returns None or a time of day "HH:MM:SS" with the hour in
\* 00..23, the minute in 00..59 and the second in 00..59, whatever the text.
C19_ParseTimeIsTimeOfDay ==
    (call.fn = "parse_time" /\ result.val # PyNone)
        => /\ result.val.t = "str"
           /\ Len(result.val.s) = 8
           /\ result.val.s[3] = ":" /\ result.val.s[6] = ":"
           /\ AllDigits(Slice(result.val.s, 0, 2))
           /\ AllDigits(Slice(result.val.s, 3, 5))
           /\ AllDigits(Slice(result.val.s, 6, 8))
           /\ DigitsVal(Slice(result.val.s, 0, 2)) <= 23
           /\ DigitsVal(Slice(result.val.s, 3, 5)) <= 59
           /\ DigitsVal(Slice(result.val.s, 6, 8)) <= 59

(***************************************************************************)
(* publish_nmea called by two workers.  Nothing in publish_nmea holds a    *)
(* lock: the test of line 53 and the assignment of line 66 are separate    *)
(* statements with parse_nmea and mqtt_client.publish between them, so a   *)
(* worker may run between the two.                                         *)
(***************************************************************************)
\* Lines 35-54 let the sentence through to parse_nmea.
PassesGate(lp, nmea_sentence) ==
    /\ StartsWith(nmea_sentence, "$")
    /\ ChecksumCheck(nmea_sentence).ok
    /\ SentenceType(nmea_sentence) \in DOMAIN PUBLISH_INTERVALS
    /\ ~WithinRateLimit(lp, SentenceType(nmea_sentence), time_time)

\* The sentences the workers are handed.
WorkerLines ==
    {<<"$">> \o body : body \in HdtBodies} \cup {<<"$">> \o body : body \in SuffixedBodies}

\* Worker w calls publish_nmea and runs lines 35-54: the call ends there, or
\* the sentence passes the gate with current_time read.
WBegin(w, nmea_sentence) ==
    /\ wpc[w] = "idle"
    /\ line' = nmea_sentence
    /\ sink' = NoMessage
    /\ IF PassesGate(last_published, nmea_sentence)
       THEN /\ wpc' = [wpc EXCEPT ![w] = "passed"]
            /\ wline' = [wline EXCEPT ![w] = nmea_sentence]
            /\ wtime' = [wtime EXCEPT ![w] = time_time]
            /\ last_published' = LpTouched(last_published, SentenceType(nmea_sentence))
            /\ outcome' = [kind |-> "passed"]
       ELSE \E r \in {PublishResult(last_published, nmea_sentence)} :
            /\ wpc' = [wpc EXCEPT ![w] = IF r.kind = "raised" THEN "dead" ELSE "idle"]
            /\ last_published' = r.lp
            /\ outcome' = [kind |-> r.kind]
            /\ UNCHANGED <<wline, wtime>>
    /\ UNCHANGED <<now, nticks, running, call, result>>

\* Worker w runs lines 56-66 with the current_time it read at line 52.
WFinish(w) ==
    /\ wpc[w] = "passed"
    /\ \E r \in {AfterParse(last_published, SentenceType(wline[w]), wtime[w],
                           ~ChecksumCheck(wline[w]).val,
                           main_parse_nmea(StripChecksum(wline[w])))} :
        /\ wpc' = [wpc EXCEPT ![w] = IF r.kind = "raised" THEN "dead" ELSE "idle"]
        /\ last_published' = r.lp
        /\ outcome' = [kind |-> r.kind]
        /\ sink' = IF r.kind = "published" THEN r.msg ELSE NoMessage
    /\ UNCHANGED <<now, nticks, line, running, call, result, wline, wtime>>

WorkersNext ==
    \/ \E d \in Ticks : Tick(d)
    \/ \E w \in Workers, nmea_sentence \in WorkerLines : WBegin(w, nmea_sentence)
    \/ \E w \in Workers : WFinish(w)

SpecWorkers == Init /\ [][WorkersNext]_vars

\* C6: of two records of one configured type whose timestamps are less than
\* one interval apart, at most one is emitted, however the two workers
\* interleave: a worker never emits a record less than one interval away from
\* the emission the publish state holds.
C6_AtMostOneEmitted ==
    [][\A w \in Workers :
          (/\ wpc[w] = "passed"
           /\ wpc'[w] = "idle"
           /\ sink' # NoMessage
           /\ PublishedBefore(SentenceType(wline[w])))
          => Abs(wtime[w] - LpValue(last_published, SentenceType(wline[w])))
                 >= PUBLISH_INTERVALS[SentenceType(wline[w])]]_vars

=============================================================================
